---- MODULE Spec2Model ----
(***************************************************************************)
(* Model of the KYC verification service (app/main.py and app/services).   *)
(*                                                                         *)
(* Numbers.  The program computes with floats in [0,1].  The model uses    *)
(* fixed point: a raw score or threshold x is the integer 100*x            *)
(* (hundredths, One = 1.0), and `overall`, a sum of products of two        *)
(* hundredths, is the integer 10000*x (One*One = 1.0).  Every score the    *)
(* model draws is a whole number of hundredths, for which the program's    *)
(* arithmetic (one subtraction, one division by 0.2, four products) is     *)
(* exact in these units.                                                   *)
(*                                                                         *)
(* Optional values.  Python's None is the string None for Optional[str]    *)
(* values and embeddings, and the empty tuple NoScore for Optional[float]; *)
(* a present float v is the tuple <<v>>.                                   *)
(***************************************************************************)
EXTENDS Integers, Sequences, FiniteSets, TLC

VARIABLES
    settings,         \* app.config.Settings, read from the environment at import
    _face_service,    \* main.py global: None or the FaceService instance
    pc,               \* position of the request being handled in kyc_verify
    request,          \* form fields of the request being handled
    locals,           \* local variables of kyc_verify bound so far (name -> value)
    outbox,           \* JSON payloads POSTed to the screening service for this request
    reply,            \* what the screening service answered for this request
    response,         \* HTTP response sent to the caller
    merge_case,       \* field merge applied to drawn inputs (MergeSpec)
    sort_case,        \* query_opensanctions applied to a drawn service answer (SortSpec)
    log,              \* lines the process printed to stderr while handling this request
    inflight,         \* requests being handled concurrently (FaceSpec): id -> position
    constructions     \* FaceService() calls started and completed (FaceSpec)

vars == <<settings, _face_service, pc, request, locals, outbox, reply, response,
          merge_case, sort_case, log, inflight, constructions>>

NoConstructions == [started |-> 0, completed |-> 0]

-----------------------------------------------------------------------------
(* Values *)

None == "None"
NoScore == <<>>

One == 100

\* Python truthiness of an Optional[str]
Truthy(s) == s # None /\ s # ""

\* Python `a or b`
PyOr(a, b) == IF Truthy(a) THEN a ELSE b

Max2(a, b) == IF a >= b THEN a ELSE b
Min2(a, b) == IF a <= b THEN a ELSE b

\* max(0.0, min(1.0, x))
Clamp01(x) == Max2(0, Min2(One, x))

-----------------------------------------------------------------------------
(* app/config.py *)

DEFAULT_FACE_PASS_THRESHOLD == 35
DEFAULT_LIVENESS_PASS_THRESHOLD == 35
DEFAULT_SANCTIONS_TOPK == 5
DEFAULT_SANCTIONS_FLAG_THRESHOLD == 85

DefaultSettings ==
    [FACE_PASS_THRESHOLD |-> DEFAULT_FACE_PASS_THRESHOLD,
     LIVENESS_PASS_THRESHOLD |-> DEFAULT_LIVENESS_PASS_THRESHOLD,
     SANCTIONS_TOPK |-> DEFAULT_SANCTIONS_TOPK,
     SANCTIONS_FLAG_THRESHOLD |-> DEFAULT_SANCTIONS_FLAG_THRESHOLD]

\* Environments the process may be started in: the defaults, and each
\* setting overridden.
Environments ==
    { DefaultSettings,
      [DefaultSettings EXCEPT !.FACE_PASS_THRESHOLD = 90],
      [DefaultSettings EXCEPT !.LIVENESS_PASS_THRESHOLD = 50],
      [DefaultSettings EXCEPT !.SANCTIONS_FLAG_THRESHOLD = 50],
      [DefaultSettings EXCEPT !.SANCTIONS_TOPK = 3],
      [FACE_PASS_THRESHOLD |-> 10, LIVENESS_PASS_THRESHOLD |-> 90,
       SANCTIONS_TOPK |-> 10, SANCTIONS_FLAG_THRESHOLD |-> 0] }

-----------------------------------------------------------------------------
(* app/services/ocr.py: the records the two extractors return *)

ParsedFields(n, d, num, nat, exp, addr) ==
    [full_name |-> n, dob |-> d, document_number |-> num,
     nationality |-> nat, expiry_date |-> exp, address |-> addr]

EmptyFields == ParsedFields(None, None, None, None, None, None)

-----------------------------------------------------------------------------
(* app/main.py, step 1: the merged ExtractedFields *)

\* Variant: OCR takes priority over MRZ
MergeFieldsOcrFirst(mrz_fields, ocr_fields, full_name, dob) ==
    [full_name |-> PyOr(PyOr(ocr_fields.full_name, mrz_fields.full_name), full_name),
     dob |-> PyOr(PyOr(ocr_fields.dob, mrz_fields.dob), dob),
     document_number |-> PyOr(ocr_fields.document_number, mrz_fields.document_number),
     nationality |-> PyOr(ocr_fields.nationality, mrz_fields.nationality),
     expiry_date |-> PyOr(ocr_fields.expiry_date, mrz_fields.expiry_date),
     address |-> ocr_fields.address,
     source |-> IF Truthy(mrz_fields.document_number) THEN "mrz" ELSE "ocr"]

MergeFields(mrz_fields, ocr_fields, full_name, dob) ==
    [full_name |-> PyOr(PyOr(mrz_fields.full_name, ocr_fields.full_name), full_name),
     dob |-> PyOr(PyOr(mrz_fields.dob, ocr_fields.dob), dob),
     document_number |-> PyOr(mrz_fields.document_number, ocr_fields.document_number),
     nationality |-> PyOr(mrz_fields.nationality, ocr_fields.nationality),
     expiry_date |-> PyOr(mrz_fields.expiry_date, ocr_fields.expiry_date),
     address |-> ocr_fields.address,
     source |-> IF Truthy(mrz_fields.document_number) THEN "mrz" ELSE "ocr"]

-----------------------------------------------------------------------------
(* app/services/face.py *)

\* What the detector and the recognizer make of an image: no face, a face
\* whose feature vector has norm < 1e-9, or a face with a usable vector.
Detections == {"no_face", "zero_norm", "face"}

\* FaceService.detect_and_embed: the embedding, or None
detect_and_embed(detection) ==
    IF detection = "no_face" THEN None
    ELSE IF detection = "zero_norm" THEN None
    ELSE "emb"

\* cosine_similarity(a, b); cos is dot(a, b) / (|a| |b| + 1e-9) of the two
\* embeddings, a number the images decide.
cosine_similarity(a, b, cos) ==
    IF a = None \/ b = None THEN 0 ELSE cos

-----------------------------------------------------------------------------
(* app/services/liveness.py *)

\* Variant: the blend is returned as it is
liveness_heuristics_unclamped(score) == score

\* liveness_heuristics: float(max(0.0, min(1.0, score))) of the blend
liveness_heuristics(score) == Max2(0, Min2(One, score))

-----------------------------------------------------------------------------
(* app/services/sanctions.py *)

\* `m.score or 0.0`
ScoreOrZero(score) == IF score = NoScore \/ score[1] = 0 THEN 0 ELSE score[1]

SortKey(m) == ScoreOrZero(m.score)

\* list.sort(key=SortKey, reverse=True) is stable: each element is placed
\* after every element already placed whose key is not smaller.
RECURSIVE InsertDesc(_, _)
InsertDesc(sorted, m) ==
    IF sorted = <<>> THEN <<m>>
    ELSE IF SortKey(Head(sorted)) >= SortKey(m)
         THEN <<Head(sorted)>> \o InsertDesc(Tail(sorted), m)
         ELSE <<m>> \o sorted

\* Variant: an element is placed before the elements of equal key
RECURSIVE InsertDescUnstable(_, _)
InsertDescUnstable(sorted, m) ==
    IF sorted = <<>> THEN <<m>>
    ELSE IF SortKey(Head(sorted)) > SortKey(m)
         THEN <<Head(sorted)>> \o InsertDescUnstable(Tail(sorted), m)
         ELSE <<m>> \o sorted

RECURSIVE SortDescUnstable(_)
SortDescUnstable(results) ==
    IF results = <<>> THEN <<>>
    ELSE InsertDescUnstable(SortDescUnstable(SubSeq(results, 1, Len(results) - 1)),
                            results[Len(results)])

RECURSIVE SortDesc(_)
SortDesc(results) ==
    IF results = <<>> THEN <<>>
    ELSE InsertDesc(SortDesc(SubSeq(results, 1, Len(results) - 1)),
                    results[Len(results)])

\* The loop building one SanctionsMatch per element of data["results"]
RECURSIVE BuildMatches(_)
BuildMatches(raw) ==
    IF raw = <<>> THEN <<>>
    ELSE <<[id |-> Head(raw).id, score |-> Head(raw).score]>> \o BuildMatches(Tail(raw))

\* The POSTed JSON body
Payload(name, birth_date, top_k) ==
    [name |-> name,
     birthDate |-> IF Truthy(birth_date) THEN birth_date ELSE None,
     size |-> top_k]

\* query_opensanctions on the service's answer: raises on a network error,
\* an HTTP error status (raise_for_status) or a body that is not the
\* expected JSON; otherwise returns the matches sorted.
query_opensanctions(answer) ==
    IF answer.kind = "ok"
    THEN [raised |-> FALSE, value |-> SortDesc(BuildMatches(answer.results))]
    ELSE [raised |-> TRUE, value |-> <<>>]

-----------------------------------------------------------------------------
(* app/main.py, step 4: the try block around the screening call *)

HARDCODED_TOP_K == 5

\* Variant: a failed lookup flags the applicant
OnSanctionsErrorFailClosed ==
    [sanctions_matches |-> <<>>, sanctions_score |-> 0, sanctions_flag |-> TRUE]

\* The except branch
OnSanctionsError ==
    [sanctions_matches |-> <<>>, sanctions_score |-> 0, sanctions_flag |-> FALSE]

\* The payloads POSTed: one if extracted.full_name is truthy, else none
SanctionsPosts(extracted) ==
    IF Truthy(extracted.full_name)
    THEN <<Payload(extracted.full_name, extracted.dob, HARDCODED_TOP_K)>>
    ELSE <<>>

\* sanctions_matches, sanctions_score and sanctions_flag after the block
SanctionsScreening(extracted, answer, s) ==
    IF ~Truthy(extracted.full_name)
    THEN [sanctions_matches |-> <<>>, sanctions_score |-> 0, sanctions_flag |-> FALSE]
    ELSE LET q == query_opensanctions(answer) IN
         IF q.raised THEN OnSanctionsError
         ELSE IF Len(q.value) > 0
              THEN LET top == q.value[1]
                       sanctions_score == ScoreOrZero(top.score)
                   IN [sanctions_matches |-> q.value,
                       sanctions_score |-> sanctions_score,
                       sanctions_flag |-> sanctions_score >= s.SANCTIONS_FLAG_THRESHOLD]
              ELSE [sanctions_matches |-> q.value, sanctions_score |-> 0,
                    sanctions_flag |-> FALSE]

-----------------------------------------------------------------------------
(* app/main.py, step 5: risk aggregation and decision *)

BAND == 20
W_FACE == 55
W_LIVE == 20
W_OCR == 15
W_SANCTIONS == 10

\* Variant: the lower clamp is missing
FaceComponentNoFloor(face_match_score, s) ==
    Min2(One, ((face_match_score - s.FACE_PASS_THRESHOLD + BAND) * One) \div BAND)

FaceComponent(face_match_score, s) ==
    Clamp01(((face_match_score - s.FACE_PASS_THRESHOLD + BAND) * One) \div BAND)

LiveComponent(live_score) == Clamp01(live_score)

OcrComponent(ocr_conf) == Clamp01(ocr_conf)

\* Variant: the score is not inverted
SanctionsComponentNotInverted(sanctions_score) == Clamp01(sanctions_score)

SanctionsComponent(sanctions_score) == Clamp01(One - sanctions_score)

\* In units of 1/(One*One)
Overall(face_component, live_component, ocr_component, sanctions_component) ==
    W_FACE * face_component + W_LIVE * live_component
    + W_OCR * ocr_component + W_SANCTIONS * sanctions_component

\* Variant: the sanctions flag does not gate the decision
PassedNoVeto(l, s) ==
    /\ l.face_match_score >= s.FACE_PASS_THRESHOLD
    /\ l.live_score >= s.LIVENESS_PASS_THRESHOLD

\* Variant: the decision is gated on the overall score
PassedByOverall(l, s) ==
    /\ l.overall >= (One * One) \div 2
    /\ ~l.sanctions_flag

\* l: the locals bound when the expression is evaluated
Passed(l, s) ==
    /\ l.face_match_score >= s.FACE_PASS_THRESHOLD
    /\ l.live_score >= s.LIVENESS_PASS_THRESHOLD
    /\ ~l.sanctions_flag

\* Variant: the face gate is reported before the sanctions flag
ReasonFaceFirst(l, s) ==
    IF l.face_match_score < s.FACE_PASS_THRESHOLD THEN "low_face_match"
    ELSE IF l.sanctions_flag THEN "sanctions_flag"
    ELSE IF l.live_score < s.LIVENESS_PASS_THRESHOLD THEN "low_liveness"
    ELSE "ok"

Reason(l, s) ==
    IF l.sanctions_flag THEN "sanctions_flag"
    ELSE IF l.face_match_score < s.FACE_PASS_THRESHOLD THEN "low_face_match"
    ELSE IF l.live_score < s.LIVENESS_PASS_THRESHOLD THEN "low_liveness"
    ELSE "ok"

\* l with name bound to v
Bind(l, name, v) == (name :> v) @@ l

\* The locals after the assignments of step 5
Aggregate(l, s) ==
    LET l1 == Bind(l, "face_component", FaceComponent(l.face_match_score, s))
        l2 == Bind(l1, "live_component", LiveComponent(l.live_score))
        l3 == Bind(l2, "ocr_component", OcrComponent(l.ocr_conf))
        l4 == Bind(l3, "sanctions_component", SanctionsComponent(l.sanctions_score))
        l5 == Bind(l4, "overall", Overall(l4.face_component, l4.live_component,
                                          l4.ocr_component, l4.sanctions_component))
    IN Bind(l5, "passed", Passed(l5, s))

\* The KycResult returned
KycResult(l, s) ==
    [extracted |-> l.extracted,
     scores |-> [face_match |-> l.face_match_score,
                 liveness |-> l.live_score,
                 ocr_confidence |-> l.ocr_conf,
                 sanctions_match |-> l.sanctions_score,
                 overall |-> l.overall],
     sanctions_matches |-> l.sanctions_matches,
     passed |-> l.passed,
     reason |-> Reason(l, s)]

-----------------------------------------------------------------------------
(* Inputs *)

\* Caller-supplied form fields full_name and dob
Requests ==
    { [full_name |-> None, dob |-> None],
      [full_name |-> "", dob |-> None],
      [full_name |-> "Ann Lee", dob |-> "1990-01-01"] }

\* What try_mrz_parse returns for the uploaded ID
MrzOutcomes ==
    { EmptyFields,
      ParsedFields("Jane Doe", "1985-05-05", "AB123456", "PHL", "2030-01-01", None) }

\* What extract_text_fields returns for the uploaded ID
OcrOutcomes ==
    { EmptyFields,
      ParsedFields("Jon Roe", None, "X1234567", None, None, "12 Elm St") }

OcrConfs == {0, 40, 80, 100}

\* Cosine similarities of two embeddings, in hundredths
FaceScores == {-20, 10, 15, 25, 35, 50, 100}

\* Values of the blend 0.6 sharp + 0.3 sat_mean - 0.3 moire_penalty that
\* liveness_heuristics computes from the selfie, in hundredths: sharp,
\* sat_mean and moire_penalty are in [0,1], so the blend is in [-0.3, 0.9]
LiveBlends == {-30, 0, 35, 50, 90}

\* data["results"] with the given scores, numbered in the order returned
RawResults(scores) == [i \in 1..Len(scores) |-> [id |-> i, score |-> scores[i]]]

OkAnswer(scores) == [kind |-> "ok", results |-> RawResults(scores)]

FailedAnswers ==
    { [kind |-> "network_error"], [kind |-> "http_error"], [kind |-> "malformed"] }

\* What the screening service can answer to one POST
Answers ==
    FailedAnswers \cup
    { OkAnswer(<<>>), OkAnswer(<< <<95>> >>), OkAnswer(<< <<50>> >>),
      OkAnswer(<< NoScore >>), OkAnswer(<< <<50>>, <<95>> >>),
      OkAnswer(<< NoScore, <<0>> >>), OkAnswer(<< <<85>>, <<85>> >>),
      OkAnswer(<< <<120>> >>) }

NoAnswer == [kind |-> "none"]
NoResponse == [status |-> 0]

-----------------------------------------------------------------------------
(* The request handler kyc_verify, one action per step *)

\* Lines printed to stderr: by try_mrz_parse when read_mrz raises, and by
\* unhandled_exception_handler
MrzFailedLine == [tag |-> "[MRZ]", about |-> "read_mrz failed"]
UnhandledErrorLine == [tag |-> "[ERROR]", about |-> "unhandled exception"]

\* What try_mrz_parse does: returns fields, or, when read_mrz raises, prints
\* a line and returns the empty record
MrzReads ==
    { [fields |-> f, failed |-> FALSE] : f \in MrzOutcomes }
    \cup { [fields |-> EmptyFields, failed |-> TRUE] }

\* Variant: the global is constructed on every call
NeedsConstructionAlways(global) == TRUE

\* face_service(): `if _face_service is None`
NeedsConstruction(global) == global = None

Init ==
    /\ settings \in Environments
    /\ _face_service = None
    /\ pc = "idle"
    /\ request = [full_name |-> None, dob |-> None]
    /\ locals = <<>>
    /\ outbox = <<>>
    /\ reply = NoAnswer
    /\ response = NoResponse
    /\ merge_case = <<>>
    /\ sort_case = <<>>
    /\ log = <<>>
    /\ inflight = <<>>
    /\ constructions = NoConstructions

Raise(status, detail) ==
    /\ response' = [status |-> status, detail |-> detail]
    /\ pc' = "done"

\* A POST /api/kyc/verify arrives
Receive ==
    /\ pc = "idle"
    /\ request' \in Requests
    /\ pc' = "read"
    /\ locals' = <<>>
    /\ outbox' = <<>>
    /\ reply' = NoAnswer
    /\ response' = NoResponse
    /\ log' = <<>>
    /\ UNCHANGED <<settings, _face_service, merge_case, sort_case, inflight, constructions>>

\* read_upload_as_bgr of the uploads; an undecodable one gives 400
ReadUploads ==
    /\ pc = "read"
    /\ \E decodable \in BOOLEAN :
         IF decodable
         THEN pc' = "ocr" /\ UNCHANGED response
         ELSE Raise(400, "Invalid image upload")
    /\ UNCHANGED <<settings, _face_service, request, locals, outbox, reply,
                   merge_case, sort_case, log, inflight, constructions>>

\* 1) OCR + MRZ, and the merged record
ExtractFields ==
    /\ pc = "ocr"
    /\ \E mrz \in MrzReads, ocr_fields \in OcrOutcomes, ocr_conf \in OcrConfs :
         LET mrz_fields == mrz.fields IN
         /\ log' = (IF mrz.failed THEN Append(log, MrzFailedLine) ELSE log)
         /\ locals' = Bind(Bind(Bind(Bind(locals,
                        "mrz_fields", mrz_fields),
                        "ocr_fields", ocr_fields),
                        "ocr_conf", ocr_conf),
                        "extracted", MergeFields(mrz_fields, ocr_fields,
                                                 request.full_name, request.dob))
    /\ pc' = "face_service"
    /\ UNCHANGED <<settings, _face_service, request, outbox, reply, response,
                   merge_case, sort_case, inflight, constructions>>

\* 2) fs = face_service(): the global is constructed on first use; a
\* constructor that raises (model download or load fails) leaves it None
\* and the exception handler answers 500
FaceServiceGet ==
    /\ pc = "face_service"
    /\ IF NeedsConstruction(_face_service)
       THEN \E constructed \in BOOLEAN :
              IF constructed
              THEN /\ _face_service' = "FaceService"
                   /\ pc' = "detect_id"
                   /\ UNCHANGED <<response, log>>
              ELSE /\ Raise(500, "Internal Server Error")
                   /\ log' = Append(log, UnhandledErrorLine)
                   /\ UNCHANGED _face_service
       ELSE /\ pc' = "detect_id"
            /\ UNCHANGED <<_face_service, response, log>>
    /\ UNCHANGED <<settings, request, locals, outbox, reply, merge_case, sort_case,
                   inflight, constructions>>

\* Variant: the None check is missing
NoFaceUnchecked(embed) == FALSE

\* `if id_face_embed is None` / `if selfie_embed is None`
NoFace(embed) == embed = None

DetectIdFace ==
    /\ pc = "detect_id"
    /\ \E detection \in Detections :
         LET id_face_embed == detect_and_embed(detection) IN
         /\ locals' = Bind(locals, "id_face_embed", id_face_embed)
         /\ IF NoFace(id_face_embed)
            THEN Raise(422, "Could not detect a face on the ID image.")
            ELSE pc' = "detect_selfie" /\ UNCHANGED response
    /\ UNCHANGED <<settings, _face_service, request, outbox, reply, merge_case, sort_case, log,
                   inflight, constructions>>

DetectSelfieFace ==
    /\ pc = "detect_selfie"
    /\ \E detection \in Detections :
         LET selfie_embed == detect_and_embed(detection) IN
         /\ locals' = Bind(locals, "selfie_embed", selfie_embed)
         /\ IF NoFace(selfie_embed)
            THEN Raise(422, "Could not detect a face on the selfie image.")
            ELSE pc' = "similarity" /\ UNCHANGED response
    /\ UNCHANGED <<settings, _face_service, request, outbox, reply, merge_case, sort_case, log,
                   inflight, constructions>>

FaceMatch ==
    /\ pc = "similarity"
    /\ \E cos \in FaceScores :
         locals' = Bind(locals, "face_match_score",
                        cosine_similarity(locals.id_face_embed, locals.selfie_embed, cos))
    /\ pc' = "liveness"
    /\ UNCHANGED <<settings, _face_service, request, outbox, reply, response,
                   merge_case, sort_case, log, inflight, constructions>>

\* 3) liveness heuristic on the selfie
Liveness ==
    /\ pc = "liveness"
    /\ \E score \in LiveBlends :
         locals' = Bind(locals, "live_score", liveness_heuristics(score))
    /\ pc' = "sanctions"
    /\ UNCHANGED <<settings, _face_service, request, outbox, reply, response,
                   merge_case, sort_case, log, inflight, constructions>>

\* 4) sanctions screening: the POST, the service's answer, the except branch
Sanctions ==
    /\ pc = "sanctions"
    /\ outbox' = SanctionsPosts(locals.extracted)
    /\ \E answer \in (IF outbox' = <<>> THEN {NoAnswer} ELSE Answers) :
         /\ reply' = answer
         /\ LET r == SanctionsScreening(locals.extracted, answer, settings) IN
            locals' = Bind(Bind(Bind(locals,
                         "sanctions_matches", r.sanctions_matches),
                         "sanctions_score", r.sanctions_score),
                         "sanctions_flag", r.sanctions_flag)
    /\ pc' = "aggregate"
    /\ UNCHANGED <<settings, _face_service, request, response, merge_case, sort_case, log,
                   inflight, constructions>>

\* 5) risk aggregation, decision and the 200 response
Decide ==
    /\ pc = "aggregate"
    /\ locals' = Aggregate(locals, settings)
    /\ response' = [status |-> 200, body |-> KycResult(locals', settings)]
    /\ pc' = "done"
    /\ UNCHANGED <<settings, _face_service, request, outbox, reply, merge_case, sort_case, log,
                   inflight, constructions>>

\* The response has been sent; the process waits for the next request
Finish ==
    /\ pc = "done"
    /\ pc' = "idle"
    /\ request' = [full_name |-> None, dob |-> None]
    /\ locals' = <<>>
    /\ outbox' = <<>>
    /\ reply' = NoAnswer
    /\ response' = NoResponse
    /\ log' = <<>>
    /\ UNCHANGED <<settings, _face_service, merge_case, sort_case, inflight, constructions>>

Next ==
    \/ Receive
    \/ ReadUploads
    \/ ExtractFields
    \/ FaceServiceGet
    \/ DetectIdFace
    \/ DetectSelfieFace
    \/ FaceMatch
    \/ Liveness
    \/ Sanctions
    \/ Decide
    \/ Finish

Spec == Init /\ [][Next]_vars

-----------------------------------------------------------------------------
(* The field merge on every combination of extractor outputs and form     *)
(* fields.  try_mrz_parse can give an empty full_name (names of blanks) or *)
(* document_number; it never sets address.  The OCR fields are None or a   *)
(* regular-expression match, which is not empty.  The form fields are      *)
(* whatever the caller sent.                                               *)

MrzSpace ==
    { ParsedFields(n, d, num, nat, exp, None) :
        n \in {None, "", "Jane Doe"}, d \in {None, "1985-05-05"},
        num \in {None, "", "AB123456"}, nat \in {None, "PHL"},
        exp \in {None, "2030-01-01"} }

OcrSpace ==
    { ParsedFields(n, d, num, nat, exp, addr) :
        n \in {None, "Jon Roe"}, d \in {None, "1990-02-02"},
        num \in {None, "X1234567"}, nat \in {None, "USA"},
        exp \in {None, "2031-12-31"}, addr \in {None, "12 Elm St"} }

FormSpace ==
    [full_name : {None, "", "Ann Lee"}, dob : {None, "", "1990-01-01"}]

InitMerge ==
    /\ settings = DefaultSettings
    /\ _face_service = None
    /\ pc = "idle"
    /\ request = [full_name |-> None, dob |-> None]
    /\ locals = <<>>
    /\ outbox = <<>>
    /\ reply = NoAnswer
    /\ response = NoResponse
    /\ merge_case \in [mrz_fields : MrzSpace, ocr_fields : OcrSpace,
                       form : FormSpace, done : {FALSE}]
    /\ sort_case = <<>>
    /\ log = <<>>
    /\ inflight = <<>>
    /\ constructions = NoConstructions

Merge ==
    /\ ~merge_case.done
    /\ merge_case' =
         [mrz_fields |-> merge_case.mrz_fields,
          ocr_fields |-> merge_case.ocr_fields,
          form |-> merge_case.form,
          done |-> TRUE,
          extracted |-> MergeFields(merge_case.mrz_fields, merge_case.ocr_fields,
                                    merge_case.form.full_name, merge_case.form.dob)]
    /\ UNCHANGED <<settings, _face_service, pc, request, locals, outbox, reply,
                   response, sort_case, log, inflight, constructions>>

NextMerge == Merge

MergeSpec == InitMerge /\ [][NextMerge]_vars

-----------------------------------------------------------------------------
(* query_opensanctions on every answer with up to MaxResults candidates *)

MaxResults == 3

ScoreSpace == {NoScore, <<0>>, <<50>>, <<95>>}

AnswerSpace ==
    FailedAnswers \cup
    { OkAnswer(scores) : scores \in UNION { [1..n -> ScoreSpace] : n \in 0..MaxResults } }

InitSort ==
    /\ settings = DefaultSettings
    /\ _face_service = None
    /\ pc = "idle"
    /\ request = [full_name |-> None, dob |-> None]
    /\ locals = <<>>
    /\ outbox = <<>>
    /\ reply = NoAnswer
    /\ response = NoResponse
    /\ merge_case = <<>>
    /\ sort_case \in [answer : AnswerSpace, done : {FALSE}]
    /\ log = <<>>
    /\ inflight = <<>>
    /\ constructions = NoConstructions

Query ==
    /\ ~sort_case.done
    /\ sort_case' = [answer |-> sort_case.answer, done |-> TRUE,
                     returned |-> query_opensanctions(sort_case.answer)]
    /\ UNCHANGED <<settings, _face_service, pc, request, locals, outbox, reply,
                   response, merge_case, log, inflight, constructions>>

NextSort == Query

SortSpec == InitSort /\ [][NextSort]_vars

-----------------------------------------------------------------------------
(* Several requests in flight in one process, seen from the global        *)
(* _face_service.  kyc_verify is a coroutine on one event loop: it yields  *)
(* only at the awaits of read_upload_as_bgr, and face_service() runs its   *)
(* check and its assignment without yielding.  The steps of a request      *)
(* that do not touch the global are one step here; letting the requests    *)
(* interleave between face_service() and the rest allows more schedules    *)
(* than the event loop does.                                               *)

MaxInflight == 2

\* A FaceService() that raises is drawn at most this many times
MaxFailures == 2

RequestIds == 1..MaxInflight

Waiting == [pc |-> "idle", fs |-> None, status |-> 0]

InitFace ==
    /\ settings = DefaultSettings
    /\ _face_service = None
    /\ pc = "idle"
    /\ request = [full_name |-> None, dob |-> None]
    /\ locals = <<>>
    /\ outbox = <<>>
    /\ reply = NoAnswer
    /\ response = NoResponse
    /\ merge_case = <<>>
    /\ sort_case = <<>>
    /\ log = <<>>
    /\ inflight = [r \in RequestIds |-> Waiting]
    /\ constructions = NoConstructions

\* A POST /api/kyc/verify arrives and awaits its uploads
Arrive(r) ==
    /\ inflight[r].pc = "idle"
    /\ inflight' = [inflight EXCEPT ![r].pc = "read"]
    /\ UNCHANGED <<settings, _face_service, pc, request, locals, outbox, reply,
                   response, merge_case, sort_case, log, constructions>>

\* The uploads are read: 400, or on to step 1 and the call of face_service()
Uploaded(r) ==
    /\ inflight[r].pc = "read"
    /\ \E decodable \in BOOLEAN :
         inflight' = [inflight EXCEPT ![r] =
                        IF decodable
                        THEN [pc |-> "face_service", fs |-> None, status |-> 0]
                        ELSE [pc |-> "done", fs |-> None, status |-> 400]]
    /\ UNCHANGED <<settings, _face_service, pc, request, locals, outbox, reply,
                   response, merge_case, sort_case, log, constructions>>

\* fs = face_service()
GetFaceService(r) ==
    /\ inflight[r].pc = "face_service"
    /\ IF NeedsConstruction(_face_service)
       THEN \/ /\ _face_service' = "FaceService"
               /\ constructions' = [started |-> constructions.started + 1,
                                    completed |-> constructions.completed + 1]
               /\ inflight' = [inflight EXCEPT ![r] =
                                 [pc |-> "rest", fs |-> _face_service', status |-> 0]]
            \/ /\ constructions.started - constructions.completed < MaxFailures
               /\ constructions' = [constructions EXCEPT !.started = @ + 1]
               /\ inflight' = [inflight EXCEPT ![r] =
                                 [pc |-> "done", fs |-> None, status |-> 500]]
               /\ UNCHANGED _face_service
       ELSE /\ inflight' = [inflight EXCEPT ![r] =
                              [pc |-> "rest", fs |-> _face_service, status |-> 0]]
            /\ UNCHANGED <<_face_service, constructions>>
    /\ UNCHANGED <<settings, pc, request, locals, outbox, reply, response,
                   merge_case, sort_case, log>>

\* Detection, scoring and the response: 422 or the KycResult
Rest(r) ==
    /\ inflight[r].pc = "rest"
    /\ \E status \in {200, 422} :
         inflight' = [inflight EXCEPT ![r].pc = "done", ![r].status = status]
    /\ UNCHANGED <<settings, _face_service, pc, request, locals, outbox, reply,
                   response, merge_case, sort_case, log, constructions>>

\* The response has been sent
Leave(r) ==
    /\ inflight[r].pc = "done"
    /\ inflight' = [inflight EXCEPT ![r] = Waiting]
    /\ UNCHANGED <<settings, _face_service, pc, request, locals, outbox, reply,
                   response, merge_case, sort_case, log, constructions>>

NextFace ==
    \E r \in RequestIds :
        \/ Arrive(r)
        \/ Uploaded(r)
        \/ GetFaceService(r)
        \/ Rest(r)
        \/ Leave(r)

FaceSpec == InitFace /\ [][NextFace]_vars

-----------------------------------------------------------------------------
(* Properties of the verification pipeline (Spec) *)

Returned == response.status = 200

Result == response.body

FaceGate == Result.scores.face_match >= settings.FACE_PASS_THRESHOLD

LiveGate == Result.scores.liveness >= settings.LIVENESS_PASS_THRESHOLD

\* C1: in every returned KycResult, a set sanctions_flag (a best sanctions
\* score at or above SANCTIONS_FLAG_THRESHOLD) gives passed = false and
\* reason = "sanctions_flag", whatever the other scores are.
C1_SanctionsVeto ==
    Returned =>
        /\ locals.sanctions_flag =>
             (~Result.passed /\ Result.reason = "sanctions_flag")
        /\ locals.sanctions_flag <=>
             ( /\ Result.sanctions_matches # <<>>
               /\ Result.scores.sanctions_match >= settings.SANCTIONS_FLAG_THRESHOLD )

\* The veto acts: flagged although the face and liveness gates are met
C1_Witness ==
    /\ Returned
    /\ locals.sanctions_flag
    /\ FaceGate /\ LiveGate
    /\ Result.scores.ocr_confidence = 100

\* C2: passed is exactly (face_match >= FACE_PASS_THRESHOLD) and
\* (liveness >= LIVENESS_PASS_THRESHOLD) and not sanctions_flag, a function
\* of the raw scores alone and not of overall or ocr_confidence.
C2_PassedFromRawScores ==
    Returned =>
        (Result.passed <=> (FaceGate /\ LiveGate /\ ~locals.sanctions_flag))

\* A failed result whose overall score is 0.90 or more
C2_Witness ==
    /\ Returned
    /\ ~Result.passed
    /\ Result.scores.overall >= 9000

\* C3: the reason is the first that applies of "sanctions_flag",
\* "low_face_match", "low_liveness", "ok"; with the default thresholds, face
\* 0.10, liveness 0.90 and best sanctions score 0.95 give passed = false and
\* reason "sanctions_flag".
C3_ReasonPriority ==
    Returned =>
        /\ Result.reason =
             (CASE locals.sanctions_flag -> "sanctions_flag"
                [] ~locals.sanctions_flag /\ ~FaceGate -> "low_face_match"
                [] ~locals.sanctions_flag /\ FaceGate /\ ~LiveGate -> "low_liveness"
                [] OTHER -> "ok")
        /\ ( /\ settings = DefaultSettings
             /\ Result.scores.face_match = 10
             /\ Result.scores.liveness = 90
             /\ Result.scores.sanctions_match = 95 )
           => (~Result.passed /\ Result.reason = "sanctions_flag")

\* The scenario of C3: the sanctions gate and the face gate both fail
C3_Witness ==
    /\ Returned
    /\ settings = DefaultSettings
    /\ Result.scores.face_match = 10
    /\ Result.scores.liveness = 90
    /\ Result.scores.sanctions_match = 95

\* C4: when the screening call fails (network error, HTTP error status,
\* malformed body) the request is still answered 200 with sanctions_match 0,
\* no sanctions_matches and no flag, passed being decided by the face and
\* liveness gates alone; the failure never becomes an error response.
C4_SanctionsFailureDegrades ==
    reply \in FailedAnswers =>
        /\ response.status \in {0, 200}
        /\ pc \in {"aggregate", "done"}
        /\ locals.sanctions_matches = <<>>
        /\ locals.sanctions_score = 0
        /\ ~locals.sanctions_flag
        /\ pc = "done" =>
             /\ Returned
             /\ Result.scores.sanctions_match = 0
             /\ Result.sanctions_matches = <<>>
             /\ Result.passed <=> (FaceGate /\ LiveGate)

\* A request that passes although its screening call failed
C4_Witness ==
    /\ reply = [kind |-> "network_error"]
    /\ Returned
    /\ Result.passed

NoFaceFound ==
    \/ "id_face_embed" \in DOMAIN locals /\ locals.id_face_embed = None
    \/ "selfie_embed" \in DOMAIN locals /\ locals.selfie_embed = None

LaterLocals ==
    {"face_match_score", "live_score", "sanctions_matches", "sanctions_score",
     "sanctions_flag", "face_component", "live_component", "ocr_component",
     "sanctions_component", "overall", "passed"}

\* C5: when detect_and_embed finds no face (or a feature vector of norm
\* near zero) in the ID image or the selfie, the request ends at once with
\* a 422 and no KycResult, and similarity, liveness, sanctions screening
\* and aggregation are not executed for it.
C5_NoFaceAborts ==
    /\ NoFaceFound =>
         /\ pc = "done"
         /\ response.status = 422
         /\ "body" \notin DOMAIN response
         /\ DOMAIN locals \cap LaterLocals = {}
         /\ outbox = <<>>
         /\ reply = NoAnswer
    /\ response.status = 422 => NoFaceFound

\* A face on the ID but none on the selfie
C5_Witness ==
    /\ "selfie_embed" \in DOMAIN locals
    /\ locals.id_face_embed # None
    /\ locals.selfie_embed = None
    /\ response.status = 422

\* C6: the overall score of every returned KycResult is in [0,1], for
\* every input (negative face_match included) and every threshold
\* configuration.
C6_OverallInUnitInterval ==
    Returned => (Result.scores.overall >= 0 /\ Result.scores.overall <= 10000)

\* A negative similarity together with a screening score above 1
C6_Witness ==
    /\ Returned
    /\ Result.scores.face_match < 0
    /\ Result.scores.sanctions_match > 100
    /\ settings.FACE_PASS_THRESHOLD # DEFAULT_FACE_PASS_THRESHOLD

\* C7: overall = 0.55 face_component + 0.20 liveness_component
\* + 0.15 ocr_component + 0.10 sanctions_component with face_component =
\* clamp((face_match - FACE_PASS_THRESHOLD + 0.2)/0.2, 0, 1), the liveness and
\* OCR components the clamped raw scores and sanctions_component =
\* clamp(1 - best score, 0, 1); face_component is 1 at the threshold and 0
\* at threshold - 0.2 or below; sanctions_component is 1 without matches;
\* face 0.50, liveness 0.50, ocr 0.80, no matches and the default thresholds
\* give overall 0.87, passed, reason "ok".
C7_OverallFormula ==
    Returned =>
        LET sc == Result.scores
            d == sc.face_match - settings.FACE_PASS_THRESHOLD
            face == IF d <= -20 THEN 0 ELSE IF d >= 0 THEN 100 ELSE 5 * (d + 20)
            live == IF sc.liveness < 0 THEN 0
                    ELSE IF sc.liveness > 100 THEN 100 ELSE sc.liveness
            ocr == IF sc.ocr_confidence < 0 THEN 0
                   ELSE IF sc.ocr_confidence > 100 THEN 100 ELSE sc.ocr_confidence
            sanc == IF sc.sanctions_match > 100 THEN 0
                    ELSE IF sc.sanctions_match < 0 THEN 100
                    ELSE 100 - sc.sanctions_match
        IN /\ sc.overall = 55 * face + 20 * live + 15 * ocr + 10 * sanc
           /\ locals.face_component = face
           /\ locals.live_component = live
           /\ locals.ocr_component = ocr
           /\ locals.sanctions_component = sanc
           /\ Result.sanctions_matches = <<>> => sanc = 100
           /\ ( /\ settings = DefaultSettings
                /\ sc.face_match = 50 /\ sc.liveness = 50 /\ sc.ocr_confidence = 80
                /\ Result.sanctions_matches = <<>> )
              => (sc.overall = 8700 /\ Result.passed /\ Result.reason = "ok")

\* The scenario of C7
C7_Witness ==
    /\ Returned
    /\ settings = DefaultSettings
    /\ Result.scores.face_match = 50
    /\ Result.scores.liveness = 50
    /\ Result.scores.ocr_confidence = 80
    /\ Result.sanctions_matches = <<>>
    /\ reply = OkAnswer(<<>>)

\* C10: the number of candidates requested from the screening service (the
\* size of the POSTed query) is the configured SANCTIONS_TOPK.
C10_TopKFromSettings ==
    \A i \in 1..Len(outbox) : outbox[i].size = settings.SANCTIONS_TOPK

-----------------------------------------------------------------------------
(* Properties of the field merge (MergeSpec) *)

NonEmpty(v) == v # None /\ v # ""

\* v is what a merge of the sources, in their order, must give: the first
\* non-empty one; None if every source is None; and no value otherwise
MergedFrom(v, sources) ==
    /\ (\E i \in 1..Len(sources) : NonEmpty(sources[i])) =>
         \E i \in 1..Len(sources) :
            /\ NonEmpty(sources[i])
            /\ \A j \in 1..(i - 1) : ~NonEmpty(sources[j])
            /\ v = sources[i]
    /\ (\A i \in 1..Len(sources) : ~NonEmpty(sources[i])) => ~NonEmpty(v)
    /\ (\A i \in 1..Len(sources) : sources[i] = None) => v = None

\* C8: each merged field is the first non-empty value in the order MRZ,
\* OCR, caller-supplied override (override for full_name and dob only);
\* address is the OCR address; a field no source supplies is absent and the
\* merge does not fail; source is "mrz" exactly when the MRZ record has a
\* non-empty document_number, and "ocr" otherwise.
C8_MergePolicy ==
    merge_case.done =>
        LET m == merge_case.mrz_fields
            o == merge_case.ocr_fields
            f == merge_case.form
            e == merge_case.extracted
        IN /\ DOMAIN e = {"full_name", "dob", "document_number", "nationality",
                          "expiry_date", "address", "source"}
           /\ MergedFrom(e.full_name, <<m.full_name, o.full_name, f.full_name>>)
           /\ MergedFrom(e.dob, <<m.dob, o.dob, f.dob>>)
           /\ MergedFrom(e.document_number, <<m.document_number, o.document_number>>)
           /\ MergedFrom(e.nationality, <<m.nationality, o.nationality>>)
           /\ MergedFrom(e.expiry_date, <<m.expiry_date, o.expiry_date>>)
           /\ e.address = o.address
           /\ e.source = (IF NonEmpty(m.document_number) THEN "mrz" ELSE "ocr")

\* MRZ and OCR disagree on the name and the number, the MRZ gives no
\* nationality, and no source gives a date of birth
C8_Witness ==
    /\ merge_case.done
    /\ merge_case.mrz_fields.full_name = "Jane Doe"
    /\ merge_case.ocr_fields.full_name = "Jon Roe"
    /\ merge_case.mrz_fields.document_number = "AB123456"
    /\ merge_case.ocr_fields.document_number = "X1234567"
    /\ merge_case.mrz_fields.nationality = None
    /\ merge_case.ocr_fields.nationality = "USA"
    /\ merge_case.extracted.dob = None
    /\ merge_case.extracted.source = "mrz"

-----------------------------------------------------------------------------
(* Properties of query_opensanctions (SortSpec) *)

KeyOf(score) == IF score = NoScore THEN 0 ELSE score[1]

\* C9: the list query_opensanctions returns holds the service's candidates,
\* each with the score it came with (an absent score stays absent), in
\* descending order of score with an absent score counted as 0, candidates
\* of equal key in the order the service returned them.
C9_SortedStable ==
    (sort_case.done /\ sort_case.answer.kind = "ok") =>
        LET raw == sort_case.answer.results
            out == sort_case.returned.value
        IN /\ ~sort_case.returned.raised
           /\ Len(out) = Len(raw)
           /\ \A i \in 1..Len(raw) : \E j \in 1..Len(out) : out[j].id = i
           /\ \A j \in 1..Len(out) :
                /\ out[j].id \in 1..Len(raw)
                /\ out[j].score = raw[out[j].id].score
           /\ \A i, j \in 1..Len(out) :
                i < j =>
                   /\ KeyOf(out[i].score) >= KeyOf(out[j].score)
                   /\ KeyOf(out[i].score) = KeyOf(out[j].score) => out[i].id < out[j].id

\* Reordered candidates, with a tie between a score of 0 and an absent one
C9_Witness ==
    /\ sort_case.done
    /\ sort_case.answer = OkAnswer(<< NoScore, <<95>>, <<0>> >>)
    /\ sort_case.returned.value =
         << [id |-> 2, score |-> <<95>>], [id |-> 1, score |-> NoScore],
            [id |-> 3, score |-> <<0>>] >>

\* C11 as claimed: all five scores of a returned KycResult are in [0,1]
C11_AllScoresInUnitInterval ==
    Returned =>
        /\ Result.scores.face_match >= 0 /\ Result.scores.face_match <= 100
        /\ Result.scores.liveness >= 0 /\ Result.scores.liveness <= 100
        /\ Result.scores.ocr_confidence >= 0 /\ Result.scores.ocr_confidence <= 100
        /\ Result.scores.sanctions_match >= 0 /\ Result.scores.sanctions_match <= 100
        /\ Result.scores.overall >= 0 /\ Result.scores.overall <= 10000

\* C11: in every returned KycResult liveness, ocr_confidence and overall
\* are in [0,1]; face_match is the cosine similarity as computed, in
\* [-1,1], and sanctions_match is the top match's score as the screening
\* service gave it, 0 when it is absent or there is no match.
C11_ClampedScoresInUnitInterval ==
    Returned =>
        /\ Result.scores.liveness >= 0 /\ Result.scores.liveness <= 100
        /\ Result.scores.ocr_confidence >= 0 /\ Result.scores.ocr_confidence <= 100
        /\ Result.scores.overall >= 0 /\ Result.scores.overall <= 10000
        /\ Result.scores.face_match >= -100 /\ Result.scores.face_match <= 100
        /\ Result.sanctions_matches = <<>> => Result.scores.sanctions_match = 0
        /\ Result.sanctions_matches # <<>> =>
             Result.scores.sanctions_match = KeyOf(Result.sanctions_matches[1].score)

\* A negative face_match next to a liveness of 0 and an overall of 0
C11_Witness ==
    /\ Returned
    /\ Result.scores.face_match < 0
    /\ Result.scores.liveness = 0
    /\ Result.scores.overall = 0

\* C13: whenever the screening call fails and the pipeline goes on with
\* "no matches, zero score", a line about the failure is printed
\* server-side, and a lookup that succeeds without matches prints none, so
\* that the log tells the two apart.
C13_FailedLookupIsLogged ==
    pc = "done" =>
        /\ reply \in FailedAnswers =>
             \E i \in 1..Len(log) : log[i] \notin {MrzFailedLine, UnhandledErrorLine}
        /\ reply = OkAnswer(<<>>) =>
             \A i \in 1..Len(log) : log[i] \in {MrzFailedLine, UnhandledErrorLine}

-----------------------------------------------------------------------------
(* Properties of the shared FaceService (FaceSpec) *)

\* C12 as claimed: over all requests of a process, concurrent ones and
\* those after a failed initialization included, the FaceService
\* construction runs at most once.
C12_ConstructionRunsAtMostOnce == constructions.started <= 1

\* C12: over all requests of a process, concurrent ones included, at most
\* one FaceService construction completes, and every request that got past
\* face_service() holds that one instance; a construction that raises
\* leaves the global None, so it is run again by the next request.
C12_OneSharedInstance ==
    /\ constructions.completed <= 1
    /\ constructions.completed <= constructions.started
    /\ (constructions.completed = 1) <=> (_face_service # None)
    /\ \A r \in RequestIds :
         inflight[r].pc = "rest" =>
            (inflight[r].fs # None /\ inflight[r].fs = _face_service)
    /\ \A r \in RequestIds :
         inflight[r].status = 500 => inflight[r].fs = None

\* Two requests in flight holding the instance, built after a construction
\* that raised
C12_Witness ==
    /\ \A r \in RequestIds : inflight[r].pc = "rest"
    /\ constructions.started >= 2
    /\ constructions.completed = 1

====
